---- MODULE Spec2Model ----
(***************************************************************************)
(* A model of the closure compiler of src/main.rs: the lowering pass       *)
(* compile_node, run as a stack machine over the syntax tree, the driver   *)
(* compile, and the closures it builds, run as a stack machine over the    *)
(* runtime frame.                                                          *)
(***************************************************************************)
EXTENDS Integers, Sequences, FiniteSets, TLC

VARIABLES
    entry,          \* the Program handed to compile and the host types Input, Output
    overflow_checks,\* whether the build panics on i32 overflow (debug) or wraps (release)
    pc,             \* "lower", "ready", "run" or "abort"
    panic_msg,      \* message of the compile-time panic, "" when none
    ctxt,           \* CompilationContext: [stack, vars]
    pending,        \* compile_node calls still to make or to finish, next first
    lowered,        \* (ty, thunk) pairs returned by finished compile_node calls
    thunk,          \* the top-level closure captured by the callable
    stack_len,      \* the frame length captured by the callable
    rctxt,          \* RuntimeContext of the current invocation: [stack]
    input,          \* host input of the current invocation
    ctl,            \* closure being entered, or value being returned
    kont,           \* closures waiting for a nested closure's value, innermost first
    body_runs,      \* executions of a While body in the current invocation
    history         \* finished invocations: input and outcome

vars == <<entry, overflow_checks, pc, panic_msg, ctxt, pending, lowered, thunk,
          stack_len, rctxt, input, ctl, kont, body_runs, history>>

---------------------------------------------------------------------------
(* Bounds *)

\* invocations of one compiled callable
MaxCalls == 3
\* invocations of the Fibonacci callable over its whole input range
MaxFibCalls == 1
\* largest input of the Fibonacci program in the checked range
MaxFibN == 10
\* body executions after which a loop is no longer followed
MaxBodyRuns == 46

---------------------------------------------------------------------------
(* Type, Value *)

I32Max == 2147483647
I32Min == -I32Max - 1

\* Value::Unit, Value::Bool(b), Value::Int(i)
VUnit == [tag |-> "Unit", b |-> FALSE, i |-> 0]
VBool(b) == [tag |-> "Bool", b |-> b, i |-> 0]
VInt(i) == [tag |-> "Int", b |-> FALSE, i |-> i]

\* the match of Node::Const: the Type of a Value
TypeOf(value) == value.tag

---------------------------------------------------------------------------
(* Node *)

Let(name, value) == [k |-> "Let", name |-> name, value |-> value]
Assign(name, value) == [k |-> "Assign", name |-> name, value |-> value]
Const(value) == [k |-> "Const", v |-> value]
Var(name) == [k |-> "Var", name |-> name]
Gt(lhs, rhs) == [k |-> "Gt", lhs |-> lhs, rhs |-> rhs]
Add(lhs, rhs) == [k |-> "Add", lhs |-> lhs, rhs |-> rhs]
Sub(lhs, rhs) == [k |-> "Sub", lhs |-> lhs, rhs |-> rhs]
While(cond, body) == [k |-> "While", cond |-> cond, body |-> body]
Block(nodes) == [k |-> "Block", nodes |-> nodes]

Program(in, out, body) == [input |-> in, output |-> out, body |-> body]

\* the program built in main
fib ==
    Program("Int", "Int", Block(<<
        Let("x", Const(VInt(0))),
        Let("y", Const(VInt(1))),
        Let("z", Const(VInt(1))),
        Let("n", Var("input")),
        While(Gt(Var("n"), Const(VInt(0))),
              Block(<<Assign("x", Var("y")),
                      Assign("y", Var("z")),
                      Assign("z", Add(Var("x"), Var("y"))),
                      Assign("n", Sub(Var("n"), Const(VInt(1))))>>)),
        Var("x")>>))

---------------------------------------------------------------------------
(* The programs compiled: each with the host types compile is instantiated *)
(* with and the host inputs its callable is invoked with                   *)

Entry(prog, Input, Output, inputs) ==
    [prog |-> prog, Input |-> Input, Output |-> Output, inputs |-> inputs,
     calls |-> MaxCalls]

FibInputs == (-2 .. MaxFibN) \cup {45}
SmallInts == {-1, 0, 1, 2}
EdgeInts == {I32Min, -1, 0, 1, I32Max}

\* a Let inside a While body, read after the loop
let_in_while ==
    Program("Int", "Int", Block(<<
        While(Gt(Var("input"), Const(VInt(0))),
              Block(<<Let("y", Const(VInt(7))),
                      Assign("input", Sub(Var("input"), Const(VInt(1))))>>)),
        Var("y")>>))

\* Block([Let x = 5, Assign x = x + 3, Var x])
let_assign_var ==
    Program("Int", "Int", Block(<<Let("x", Const(VInt(5))),
                                  Assign("x", Add(Var("x"), Const(VInt(3)))),
                                  Var("x")>>))

\* Add of a Bool and an Int
add_bool_int == Program("Int", "Int", Add(Const(VBool(TRUE)), Const(VInt(1))))

\* a loop whose condition is always true
loop_forever ==
    Program("Int", "Int", Block(<<While(Const(VBool(TRUE)), Const(VUnit)),
                                  Const(VInt(0))>>))

\* the same name declared in both operands of an operator
let_twice_in_operands ==
    Program("Int", "Int", Add(Block(<<Let("a", Const(VInt(1))), Var("a")>>),
                              Block(<<Let("a", Const(VInt(2))), Var("a")>>)))

FibEntry == [Entry(fib, "Int", "Int", FibInputs) EXCEPT !.calls = MaxFibCalls]

Scenarios == <<
    FibEntry,
    Entry(fib, "Int", "Int", SmallInts),
    Entry(let_assign_var, "Int", "Int", SmallInts),
    Entry(Program("Int", "Bool", Gt(Const(VInt(2)), Const(VInt(3)))),
          "Int", "Bool", SmallInts),
    Entry(add_bool_int, "Int", "Int", SmallInts),
    Entry(let_in_while, "Int", "Int", SmallInts),
    Entry(loop_forever, "Int", "Int", SmallInts),
    Entry(Program("Bool", "Int", Block(<<Let("c", Const(VInt(0))),
                                         While(Var("input"),
                                               Block(<<Assign("input", Const(VBool(FALSE))),
                                                       Assign("c", Add(Var("c"), Const(VInt(1))))>>)),
                                         Var("c")>>)),
          "Bool", "Int", BOOLEAN),
    Entry(let_twice_in_operands, "Int", "Int", SmallInts),
    Entry(Program("Int", "Int", Sub(Block(<<Let("a", Var("input")), Var("a")>>),
                                    Block(<<Assign("a", Const(VInt(2))), Var("a")>>))),
          "Int", "Int", SmallInts),
    Entry(Program("Int", "Int", Block(<<>>)), "Int", "Int", SmallInts),
    Entry(Program("Int", "Int", Let("r", Var("input"))), "Int", "Int", SmallInts),
    Entry(Program("Int", "Int", Var("input")), "Bool", "Int", BOOLEAN),
    Entry(Program("Int", "Bool", Gt(Var("input"), Const(VInt(0)))), "Int", "Int", SmallInts),
    Entry(Program("Bool", "Bool", Var("input")), "Bool", "Bool", BOOLEAN)
>>

\* one binary operator applied to the input and a constant at the edges of i32
Ops == <<"Gt", "Add", "Sub">>
Operands == <<I32Min, -1, 1, I32Max>>
BinProgs ==
    [n \in 1 .. (Len(Ops) * Len(Operands)) |->
        LET op == Ops[((n - 1) \div Len(Operands)) + 1]
            c == Operands[((n - 1) % Len(Operands)) + 1]
            out == IF op = "Gt" THEN "Bool" ELSE "Int"
        IN Entry(Program("Int", out,
                         Block(<<Let("a", Var("input")),
                                 [k |-> op, lhs |-> Var("a"), rhs |-> Const(VInt(c))]>>)),
                 "Int", out, EdgeInts)]

\* every ordered pair of these statements, followed by a read of the input
Stmts == <<
    Let("x", Const(VInt(1))),
    Let("x", Const(VBool(TRUE))),
    Let("y", Var("x")),
    Let("input", Const(VInt(1))),
    Assign("x", Add(Var("x"), Var("input"))),
    Assign("x", Const(VBool(TRUE))),
    Assign("input", Var("x")),
    While(Gt(Var("input"), Const(VInt(0))),
          Block(<<Let("x", Const(VInt(2))),
                  Assign("input", Sub(Var("input"), Const(VInt(1))))>>)),
    Let("y", Gt(Var("x"), Const(VInt(1)))),
    Sub(Var("x"), Var("y")),
    Let("u", Let("x", Const(VInt(3)))),
    While(Var("x"), Assign("x", Const(VBool(FALSE)))),
    Assign("y", Block(<<Let("y", Const(VInt(1))), Var("y")>>)),
    Let("x", Var("x")),
    Gt(Var("input"), Const(VBool(FALSE)))
>>
PairProgs ==
    [n \in 1 .. (Len(Stmts) * Len(Stmts)) |->
        Entry(Program("Int", "Int",
                      Block(<<Stmts[((n - 1) \div Len(Stmts)) + 1],
                              Stmts[((n - 1) % Len(Stmts)) + 1],
                              Var("input")>>)),
              "Int", "Int", {0, 1})]

Entries == Scenarios \o BinProgs \o PairProgs

---------------------------------------------------------------------------
(* compile, lines 203-206, and the state before the first compile_node call *)

NoThunk == [k |-> "None"]
Idle == [m |-> "idle"]

\* IntoValue::into_value of the host type Input
into_value(Input, x) == IF Input = "Bool" THEN VBool(x) ELSE VInt(x)

Task(node) == [op |-> "node", node |-> node]

Init ==
    /\ \E n \in 1 .. Len(Entries) : entry = Entries[n]
    /\ overflow_checks \in BOOLEAN
    /\ pc = "lower"
    /\ panic_msg = ""
    /\ ctxt = [stack |-> <<entry.prog.input>>, vars |-> [n \in {"input"} |-> 0]]
    /\ pending = <<Task(entry.prog.body)>>
    /\ lowered = <<>>
    /\ thunk = NoThunk
    /\ stack_len = 0
    /\ rctxt = [stack |-> <<>>]
    /\ input = (entry.Input = "Bool")
    /\ ctl = Idle
    /\ kont = <<>>
    /\ body_runs = 0
    /\ history = <<>>

rtvars == <<rctxt, input, ctl, kont, body_runs, history>>
outvars == <<thunk, stack_len>>

---------------------------------------------------------------------------
(* compile_node *)

\* a panic while compiling: no callable is returned
Panic(msg) ==
    /\ pc' = "abort"
    /\ panic_msg' = msg

NoPanic == UNCHANGED <<pc, panic_msg>>

\* the compile_node call to make next is for a node of this variant
Lowering(kind) ==
    /\ pc = "lower"
    /\ pending # <<>>
    /\ Head(pending).op = "node"
    /\ Head(pending).node.k = kind

\* the nested compile_node calls of this variant have returned
Finishing(kind) ==
    /\ pc = "lower"
    /\ pending # <<>>
    /\ Head(pending).op = kind

\* the last and the one but last result returned
Top(s) == s[Len(s)]
Top2(s) == s[Len(s) - 1]
Drop(s, n) == SubSeq(s, 1, Len(s) - n)

\* ctxt.vars.get(name): the slot, or none
GetOrInput(vs, name) == IF name \in DOMAIN vs THEN <<vs[name]>> ELSE <<0>>
Get(vs, name) == IF name \in DOMAIN vs THEN <<vs[name]>> ELSE <<>>

\* ctxt.vars.insert(name, id)
Insert(vs, name, id) ==
    [n \in DOMAIN vs \cup {name} |-> IF n = name THEN id ELSE vs[n]]

\* ctxt.vars.insert(name, id).is_some()
NeverDeclared(vs, name) == FALSE
AlreadyDeclared(vs, name) == name \in DOMAIN vs

\* let id = ctxt.stack.len()
LastSlot(c) == Len(c.stack) - 1
NewSlot(c) == Len(c.stack)

\* ctxt.stack[id]
SlotType(c, id) == c.stack[id + 1]

compile_node_Let ==
    /\ Lowering("Let")
    /\ LET node == Head(pending).node
       IN pending' = <<Task(node.value), [op |-> "Let", name |-> node.name]>>
                        \o Tail(pending)
    /\ NoPanic
    /\ UNCHANGED <<entry, overflow_checks, ctxt, lowered, outvars, rtvars>>

compile_node_Let_finish ==
    /\ Finishing("Let")
    /\ LET name == Head(pending).name
           ty == Top(lowered).ty
           value == Top(lowered).thunk
           id == NewSlot(ctxt)
       IN /\ ctxt' = [stack |-> Append(ctxt.stack, ty),
                      vars |-> Insert(ctxt.vars, name, id)]
          /\ IF AlreadyDeclared(ctxt.vars, name)
             THEN /\ Panic("var already declared")
                  /\ UNCHANGED <<pending, lowered>>
             ELSE /\ NoPanic
                  /\ pending' = Tail(pending)
                  /\ lowered' = Append(Drop(lowered, 1),
                                       [ty |-> "Unit",
                                        thunk |-> [k |-> "Let", id |-> id, value |-> value]])
    /\ UNCHANGED <<entry, overflow_checks, outvars, rtvars>>

compile_node_Assign ==
    /\ Lowering("Assign")
    /\ LET node == Head(pending).node
           got == Get(ctxt.vars, node.name)
       IN IF got = <<>>
          THEN /\ Panic("var not defined")
               /\ UNCHANGED pending
          ELSE /\ NoPanic
               /\ pending' = <<Task(node.value), [op |-> "Assign", id |-> got[1]]>>
                                \o Tail(pending)
    /\ UNCHANGED <<entry, overflow_checks, ctxt, lowered, outvars, rtvars>>

compile_node_Assign_finish ==
    /\ Finishing("Assign")
    /\ LET id == Head(pending).id
           ty == Top(lowered).ty
           value == Top(lowered).thunk
       IN IF ty # SlotType(ctxt, id)
          THEN /\ Panic("assertion failed")
               /\ UNCHANGED <<pending, lowered>>
          ELSE /\ NoPanic
               /\ pending' = Tail(pending)
               /\ lowered' = Append(Drop(lowered, 1),
                                    [ty |-> "Unit",
                                     thunk |-> [k |-> "Assign", id |-> id, value |-> value]])
    /\ UNCHANGED <<entry, overflow_checks, ctxt, outvars, rtvars>>

compile_node_Const ==
    /\ Lowering("Const")
    /\ LET value == Head(pending).node.v
       IN lowered' = Append(lowered, [ty |-> TypeOf(value),
                                      thunk |-> [k |-> "Const", v |-> value]])
    /\ pending' = Tail(pending)
    /\ NoPanic
    /\ UNCHANGED <<entry, overflow_checks, ctxt, outvars, rtvars>>

compile_node_Var ==
    /\ Lowering("Var")
    /\ LET got == Get(ctxt.vars, Head(pending).node.name)
       IN IF got = <<>>
          THEN /\ Panic("var not defined")
               /\ UNCHANGED <<pending, lowered>>
          ELSE /\ NoPanic
               /\ pending' = Tail(pending)
               /\ lowered' = Append(lowered, [ty |-> SlotType(ctxt, got[1]),
                                              thunk |-> [k |-> "Var", id |-> got[1]]])
    /\ UNCHANGED <<entry, overflow_checks, ctxt, outvars, rtvars>>

\* the two nested calls of Gt, Add, Sub and While
LowerOperands(kind, first, second) ==
    /\ Lowering(kind)
    /\ LET node == Head(pending).node
       IN pending' = <<Task(first), Task(second), [op |-> kind]>> \o Tail(pending)
    /\ NoPanic
    /\ UNCHANGED <<entry, overflow_checks, ctxt, lowered, outvars, rtvars>>

\* match (lhs_ty, rhs_ty): the result type of the one supported pair, or none
AnyAnyToInt(lhs_ty, rhs_ty) == <<"Int">>
IntIntToBool(lhs_ty, rhs_ty) ==
    IF lhs_ty = "Int" /\ rhs_ty = "Int" THEN <<"Bool">> ELSE <<>>
IntIntToInt(lhs_ty, rhs_ty) ==
    IF lhs_ty = "Int" /\ rhs_ty = "Int" THEN <<"Int">> ELSE <<>>

GtType(lhs_ty, rhs_ty) == IntIntToBool(lhs_ty, rhs_ty)
AddType(lhs_ty, rhs_ty) == IntIntToInt(lhs_ty, rhs_ty)
SubType(lhs_ty, rhs_ty) == IntIntToInt(lhs_ty, rhs_ty)

FinishOperator(kind, ty) ==
    /\ Finishing(kind)
    /\ IF ty = <<>>
       THEN /\ Panic("unknown op")
            /\ UNCHANGED <<pending, lowered>>
       ELSE /\ NoPanic
            /\ pending' = Tail(pending)
            /\ lowered' = Append(Drop(lowered, 2),
                                 [ty |-> ty[1],
                                  thunk |-> [k |-> kind,
                                             lhs |-> Top2(lowered).thunk,
                                             rhs |-> Top(lowered).thunk]])
    /\ UNCHANGED <<entry, overflow_checks, ctxt, outvars, rtvars>>

compile_node_Gt ==
    /\ Lowering("Gt")
    /\ LowerOperands("Gt", Head(pending).node.lhs, Head(pending).node.rhs)

compile_node_Gt_finish ==
    /\ Finishing("Gt")
    /\ FinishOperator("Gt", GtType(Top2(lowered).ty, Top(lowered).ty))

compile_node_Add ==
    /\ Lowering("Add")
    /\ LowerOperands("Add", Head(pending).node.lhs, Head(pending).node.rhs)

compile_node_Add_finish ==
    /\ Finishing("Add")
    /\ FinishOperator("Add", AddType(Top2(lowered).ty, Top(lowered).ty))

compile_node_Sub ==
    /\ Lowering("Sub")
    /\ LowerOperands("Sub", Head(pending).node.lhs, Head(pending).node.rhs)

compile_node_Sub_finish ==
    /\ Finishing("Sub")
    /\ FinishOperator("Sub", SubType(Top2(lowered).ty, Top(lowered).ty))

compile_node_While ==
    /\ Lowering("While")
    /\ LowerOperands("While", Head(pending).node.cond, Head(pending).node.body)

compile_node_While_finish ==
    /\ Finishing("While")
    /\ LET cond_ty == Top2(lowered).ty
       IN IF cond_ty # "Bool"
          THEN /\ Panic("assertion failed")
               /\ UNCHANGED <<pending, lowered>>
          ELSE /\ NoPanic
               /\ pending' = Tail(pending)
               /\ lowered' = Append(Drop(lowered, 2),
                                    [ty |-> "Unit",
                                     thunk |-> [k |-> "While",
                                                cond |-> Top2(lowered).thunk,
                                                body |-> Top(lowered).thunk]])
    /\ UNCHANGED <<entry, overflow_checks, ctxt, outvars, rtvars>>

compile_node_Block ==
    /\ Lowering("Block")
    /\ LET nodes == Head(pending).node.nodes
       IN pending' = [i \in 1 .. Len(nodes) |-> Task(nodes[i])]
                        \o <<[op |-> "Block", n |-> Len(nodes)]>>
                        \o Tail(pending)
    /\ NoPanic
    /\ UNCHANGED <<entry, overflow_checks, ctxt, lowered, outvars, rtvars>>

\* tys.into_iter().last()
LastType(tys) == IF tys = <<>> THEN <<>> ELSE <<tys[Len(tys)]>>

compile_node_Block_finish ==
    /\ Finishing("Block")
    /\ LET n == Head(pending).n
           base == Len(lowered) - n
           tys == [i \in 1 .. n |-> lowered[base + i].ty]
           nodes == [i \in 1 .. n |-> lowered[base + i].thunk]
           ty == LastType(tys)
       IN IF ty = <<>>
          THEN /\ Panic("unwrap on None")
               /\ UNCHANGED <<pending, lowered>>
          ELSE /\ NoPanic
               /\ pending' = Tail(pending)
               /\ lowered' = Append(Drop(lowered, n),
                                    [ty |-> ty[1],
                                     thunk |-> [k |-> "Block", nodes |-> nodes]])
    /\ UNCHANGED <<entry, overflow_checks, ctxt, outvars, rtvars>>

\* compile, lines 208-214: the body is lowered; the callable is returned
compile ==
    /\ pc = "lower"
    /\ pending = <<>>
    /\ LET ty == lowered[1].ty
       IN IF \/ ty # entry.prog.output
             \/ entry.Input # entry.prog.input
             \/ entry.Output # entry.prog.output
          THEN /\ Panic("assertion failed")
               /\ UNCHANGED outvars
          ELSE /\ pc' = "ready"
               /\ UNCHANGED panic_msg
               /\ thunk' = lowered[1].thunk
               /\ stack_len' = Len(ctxt.stack)
    /\ UNCHANGED <<entry, overflow_checks, ctxt, pending, lowered, rtvars>>

Lower ==
    \/ compile_node_Let
    \/ compile_node_Let_finish
    \/ compile_node_Assign
    \/ compile_node_Assign_finish
    \/ compile_node_Const
    \/ compile_node_Var
    \/ compile_node_Gt
    \/ compile_node_Gt_finish
    \/ compile_node_Add
    \/ compile_node_Add_finish
    \/ compile_node_Sub
    \/ compile_node_Sub_finish
    \/ compile_node_While
    \/ compile_node_While_finish
    \/ compile_node_Block
    \/ compile_node_Block_finish
    \/ compile

---------------------------------------------------------------------------
(* The callable returned by compile, lines 216-224 *)

cvars == <<entry, overflow_checks, panic_msg, ctxt, pending, lowered, outvars>>

\* vec![Value::Unit; stack_len], then stack[0] = input.into_value()
ReusedFrame(len, value) ==
    IF Len(rctxt.stack) = len
    THEN [rctxt.stack EXCEPT ![1] = value]
    ELSE [i \in 1 .. len |-> IF i = 1 THEN value ELSE VUnit]
NewFrame(len, value) == [i \in 1 .. len |-> IF i = 1 THEN value ELSE VUnit]

Eval(th) == [m |-> "eval", th |-> th]
Ret(value) == [m |-> "ret", v |-> value]

Invoke ==
    /\ pc = "ready"
    /\ Len(history) < entry.calls
    /\ \E x \in entry.inputs :
          /\ input' = x
          /\ rctxt' = [stack |-> NewFrame(stack_len, into_value(entry.Input, x))]
    /\ ctl' = Eval(thunk)
    /\ kont' = <<>>
    /\ body_runs' = 0
    /\ pc' = "run"
    /\ UNCHANGED <<cvars, history>>

\* Value::unwrap_bool, Value::unwrap_int: the payload, or none (a panic)
unwrap_bool(value) == IF value.tag = "Bool" THEN <<value.b>> ELSE <<>>
unwrap_int(value) == IF value.tag = "Int" THEN <<value.i>> ELSE <<>>

\* FromValue::from_value of the host type Output
from_value(Output, value) ==
    IF Output = "Bool" THEN unwrap_bool(value) ELSE unwrap_int(value)

\* the invocation is over: it returned a host value or it panicked. A panic
\* unwinds this invocation only: the callable is an impl Fn and can be invoked
\* again by a caller that catches the unwind. rctxt is dropped; what it held is
\* kept until the next invocation builds its own frame.
Finish(kind, msg, host) ==
    /\ history' = Append(history, [in |-> input, kind |-> kind, msg |-> msg,
                                   host |-> host, runs |-> body_runs])
    /\ pc' = "ready"
    /\ ctl' = Idle
    /\ kont' = <<>>

Fault(msg) == Finish("panic", msg, <<>>)

Return ==
    /\ pc = "run"
    /\ ctl.m = "ret"
    /\ kont = <<>>
    /\ LET out == from_value(entry.Output, ctl.v)
       IN IF out = <<>>
          THEN Fault(IF entry.Output = "Bool" THEN "expected bool" ELSE "expected int")
          ELSE Finish("ret", "", out)
    /\ UNCHANGED <<cvars, rctxt, input, body_runs>>

---------------------------------------------------------------------------
(* The closures built by compile_node *)

Evaluating(kind) ==
    /\ pc = "run"
    /\ ctl.m = "eval"
    /\ ctl.th.k = kind

Returning(kind, st) ==
    /\ pc = "run"
    /\ ctl.m = "ret"
    /\ kont # <<>>
    /\ Head(kont).f = kind
    /\ Head(kont).st = st

Running == UNCHANGED <<cvars, pc, input, history>>

\* ctxt.stack[id] = value(ctxt); Value::Unit
StoreEnter(kind) ==
    /\ Evaluating(kind)
    /\ kont' = <<[f |-> kind, st |-> "value", id |-> ctl.th.id]>> \o kont
    /\ ctl' = Eval(ctl.th.value)
    /\ Running
    /\ UNCHANGED <<rctxt, body_runs>>

StoreValue(kind) ==
    /\ Returning(kind, "value")
    /\ rctxt' = [stack |-> [rctxt.stack EXCEPT ![Head(kont).id + 1] = ctl.v]]
    /\ ctl' = Ret(VUnit)
    /\ kont' = Tail(kont)
    /\ Running
    /\ UNCHANGED body_runs

closure_Let ==
    /\ Evaluating("Let")
    /\ StoreEnter("Let")

closure_Let_store ==
    /\ Returning("Let", "value")
    /\ StoreValue("Let")

closure_Assign ==
    /\ Evaluating("Assign")
    /\ StoreEnter("Assign")

closure_Assign_store ==
    /\ Returning("Assign", "value")
    /\ StoreValue("Assign")

closure_Const ==
    /\ Evaluating("Const")
    /\ ctl' = Ret(ctl.th.v)
    /\ Running
    /\ UNCHANGED <<rctxt, kont, body_runs>>

closure_Var ==
    /\ Evaluating("Var")
    /\ ctl' = Ret(rctxt.stack[ctl.th.id + 1])
    /\ Running
    /\ UNCHANGED <<rctxt, kont, body_runs>>

\* i32 lhs + rhs and lhs - rhs: whether the result leaves i32, and the wrapped result
AddOverflows(a, b) ==
    \/ b > 0 /\ a > I32Max - b
    \/ b < 0 /\ a < I32Min - b

SubOverflows(a, b) ==
    \/ b < 0 /\ a > I32Max + b
    \/ b > 0 /\ a < I32Min + b

wrapping_add(a, b) ==
    IF ~AddOverflows(a, b) THEN a + b
    ELSE IF b > 0 THEN (a + I32Min) + (b + I32Min)
    ELSE (a - I32Min) + (b - I32Min)

wrapping_sub(a, b) ==
    IF ~SubOverflows(a, b) THEN a - b
    ELSE IF b < 0 THEN (a + I32Min) - (b - I32Min)
    ELSE (a - I32Min) - (b + I32Min)

\* the operation of each operator closure: the value returned, or none for the
\* panic of a build with overflow checks
GeOp(lhs, rhs) == <<VBool(lhs >= rhs)>>
GtOp(lhs, rhs) == <<VBool(lhs > rhs)>>

AddOp(lhs, rhs) ==
    IF AddOverflows(lhs, rhs) /\ overflow_checks THEN <<>>
    ELSE <<VInt(wrapping_add(lhs, rhs))>>

SubOp(lhs, rhs) ==
    IF SubOverflows(lhs, rhs) /\ overflow_checks THEN <<>>
    ELSE <<VInt(wrapping_sub(lhs, rhs))>>

\* let lhs = lhs(ctxt).unwrap_int();
OperatorEnter(kind) ==
    /\ Evaluating(kind)
    /\ kont' = <<[f |-> kind, st |-> "lhs", rhs |-> ctl.th.rhs, lhs |-> 0]>> \o kont
    /\ ctl' = Eval(ctl.th.lhs)
    /\ Running
    /\ UNCHANGED <<rctxt, body_runs>>

\* let rhs = rhs(ctxt).unwrap_int();
OperatorLhs(kind) ==
    /\ Returning(kind, "lhs")
    /\ LET lhs == unwrap_int(ctl.v)
       IN IF lhs = <<>>
          THEN /\ Fault("expected int")
               /\ UNCHANGED <<cvars, input>>
          ELSE /\ kont' = <<[Head(kont) EXCEPT !.st = "rhs", !.lhs = lhs[1]]>>
                               \o Tail(kont)
               /\ ctl' = Eval(Head(kont).rhs)
               /\ Running
    /\ UNCHANGED <<rctxt, body_runs>>

OperatorRhs(kind, result, msg) ==
    /\ Returning(kind, "rhs")
    /\ IF unwrap_int(ctl.v) = <<>>
       THEN /\ Fault("expected int")
            /\ UNCHANGED <<cvars, input>>
       ELSE IF result = <<>>
       THEN /\ Fault(msg)
            /\ UNCHANGED <<cvars, input>>
       ELSE /\ ctl' = Ret(result[1])
            /\ kont' = Tail(kont)
            /\ Running
    /\ UNCHANGED <<rctxt, body_runs>>

\* the operand just returned, 0 when it is no Int (the closure panics before using it)
Rhs == IF ctl.m = "ret" /\ ctl.v.tag = "Int" THEN ctl.v.i ELSE 0

closure_Gt ==
    /\ Evaluating("Gt")
    /\ OperatorEnter("Gt")

closure_Gt_lhs ==
    /\ Returning("Gt", "lhs")
    /\ OperatorLhs("Gt")

closure_Gt_rhs ==
    /\ Returning("Gt", "rhs")
    /\ OperatorRhs("Gt", GtOp(Head(kont).lhs, Rhs), "")

closure_Add ==
    /\ Evaluating("Add")
    /\ OperatorEnter("Add")

closure_Add_lhs ==
    /\ Returning("Add", "lhs")
    /\ OperatorLhs("Add")

closure_Add_rhs ==
    /\ Returning("Add", "rhs")
    /\ OperatorRhs("Add", AddOp(Head(kont).lhs, Rhs), "attempt to add with overflow")

closure_Sub ==
    /\ Evaluating("Sub")
    /\ OperatorEnter("Sub")

closure_Sub_lhs ==
    /\ Returning("Sub", "lhs")
    /\ OperatorLhs("Sub")

closure_Sub_rhs ==
    /\ Returning("Sub", "rhs")
    /\ OperatorRhs("Sub", SubOp(Head(kont).lhs, Rhs), "attempt to subtract with overflow")

\* while cond(ctxt).unwrap_bool() { body(ctxt); } Value::Unit
closure_While ==
    /\ Evaluating("While")
    /\ kont' = <<[f |-> "While", st |-> "cond",
                  cond |-> ctl.th.cond, body |-> ctl.th.body]>> \o kont
    /\ ctl' = Eval(ctl.th.cond)
    /\ Running
    /\ UNCHANGED <<rctxt, body_runs>>

closure_While_cond ==
    /\ Returning("While", "cond")
    /\ LET go == unwrap_bool(ctl.v)
       IN IF go = <<>>
          THEN /\ Fault("expected bool")
               /\ UNCHANGED <<cvars, input, body_runs>>
          ELSE IF go[1]
          THEN /\ body_runs < MaxBodyRuns
               /\ body_runs' = body_runs + 1
               /\ kont' = <<[Head(kont) EXCEPT !.st = "body"]>> \o Tail(kont)
               /\ ctl' = Eval(Head(kont).body)
               /\ Running
          ELSE /\ ctl' = Ret(VUnit)
               /\ kont' = Tail(kont)
               /\ Running
               /\ UNCHANGED body_runs
    /\ UNCHANGED rctxt

closure_While_body ==
    /\ Returning("While", "body")
    /\ kont' = <<[Head(kont) EXCEPT !.st = "cond"]>> \o Tail(kont)
    /\ ctl' = Eval(Head(kont).cond)
    /\ Running
    /\ UNCHANGED <<rctxt, body_runs>>

\* let mut value = Value::Unit; for node in &nodes { value = node(ctxt); } value
closure_Block ==
    /\ Evaluating("Block")
    /\ IF ctl.th.nodes = <<>>
       THEN /\ ctl' = Ret(VUnit)
            /\ UNCHANGED kont
       ELSE /\ kont' = <<[f |-> "Block", st |-> "node",
                          nodes |-> ctl.th.nodes, idx |-> 1]>> \o kont
            /\ ctl' = Eval(ctl.th.nodes[1])
    /\ Running
    /\ UNCHANGED <<rctxt, body_runs>>

\* the node the for loop runs after the idx-th of n, 0 when the loop is over
SkipNext(idx, n) == IF idx + 1 < n THEN idx + 2 ELSE 0
NextNode(idx, n) == IF idx < n THEN idx + 1 ELSE 0

closure_Block_node ==
    /\ Returning("Block", "node")
    /\ LET next == NextNode(Head(kont).idx, Len(Head(kont).nodes))
       IN IF next # 0
          THEN /\ kont' = <<[Head(kont) EXCEPT !.idx = next]>> \o Tail(kont)
               /\ ctl' = Eval(Head(kont).nodes[next])
          ELSE /\ kont' = Tail(kont)
               /\ ctl' = Ret(ctl.v)
    /\ Running
    /\ UNCHANGED <<rctxt, body_runs>>

Run ==
    \/ closure_Let
    \/ closure_Let_store
    \/ closure_Assign
    \/ closure_Assign_store
    \/ closure_Const
    \/ closure_Var
    \/ closure_Gt
    \/ closure_Gt_lhs
    \/ closure_Gt_rhs
    \/ closure_Add
    \/ closure_Add_lhs
    \/ closure_Add_rhs
    \/ closure_Sub
    \/ closure_Sub_lhs
    \/ closure_Sub_rhs
    \/ closure_While
    \/ closure_While_cond
    \/ closure_While_body
    \/ closure_Block
    \/ closure_Block_node

Next ==
    \/ Lower
    \/ Invoke
    \/ Run
    \/ Return

Spec == Init /\ [][Next]_vars

---------------------------------------------------------------------------
(* Properties *)

Finished == {history[i] : i \in 1 .. Len(history)}

\* a compile_node call for a node of one of these variants is about to be made
AboutToLower(kinds) ==
    /\ pc = "lower"
    /\ pending # <<>>
    /\ Head(pending).op = "node"
    /\ Head(pending).node.k \in kinds

\* the operands of an operator of one of these variants have been lowered
AboutToFinish(kinds) ==
    /\ pc = "lower"
    /\ pending # <<>>
    /\ Head(pending).op \in kinds

\* C1: every Var read, Let store and Assign store of an invocation finds or
\* stores a Value whose tag is the Type the frame layout records for the slot
C1_TypeSafety ==
    pc = "run" =>
        /\ (ctl.m = "eval" /\ ctl.th.k = "Var") =>
               rctxt.stack[ctl.th.id + 1].tag = ctxt.stack[ctl.th.id + 1]
        /\ (ctl.m = "ret" /\ kont # <<>> /\ Head(kont).f \in {"Let", "Assign"}) =>
               ctl.v.tag = ctxt.stack[Head(kont).id + 1]

RECURSIVE Fibonacci(_)
Fibonacci(n) == IF n < 2 THEN n ELSE Fibonacci(n - 1) + Fibonacci(n - 2)

\* C2: the Fibonacci program returns the n-th Fibonacci number for every input
\* n in 0 .. MaxFibN, and 0 for every negative input
C2_Fibonacci ==
    entry.prog = fib =>
        \A h \in Finished :
            h.in <= MaxFibN =>
                /\ h.kind = "ret"
                /\ h.host = <<IF h.in < 0 THEN 0 ELSE Fibonacci(h.in)>>

C2_Witness ==
    /\ entry.prog = fib
    /\ \E h \in Finished : h.in = 10 /\ h.kind = "ret" /\ h.host = <<55>>

\* equal inputs, equal outcomes, among the invocations made so far
C3_SameInputSameOutput ==
    \A i, j \in 1 .. Len(history) :
        history[i].in = history[j].in =>
            /\ history[i].kind = history[j].kind
            /\ history[i].host = history[j].host
            /\ history[i].msg = history[j].msg

\* the frame an invocation starts from
C3_FreshFrame ==
    (pc = "ready" /\ pc' = "run") =>
        /\ Len(rctxt'.stack) = stack_len
        /\ rctxt'.stack[1] = into_value(entry.Input, input')
        /\ \A i \in 2 .. stack_len : rctxt'.stack[i] = VUnit

\* C3: two invocations with the same input end the same way, whatever ran
\* before, and every invocation starts from a frame of the captured length that
\* is Unit in every slot but slot 0, which holds the converted input
C3_Determinism == []C3_SameInputSameOutput /\ [][C3_FreshFrame]_vars

\* the third invocation repeats the first after a different one left its frame
C3_Witness ==
    /\ entry.prog = let_in_while
    /\ Len(history) = 3
    /\ history[1].in = 0
    /\ history[2].in = 1
    /\ history[2].host = <<7>>
    /\ history[3].in = 0

\* the scenario of the specification
C4_Scenario ==
    entry.prog = let_assign_var =>
        \A h \in Finished : h.kind = "ret" /\ h.host = <<8>>

\* the steps of a Block closure
C4_Order ==
    /\ (pc = "run" /\ ctl.m = "eval" /\ ctl.th.k = "Block" /\ ctl.th.nodes # <<>>) =>
           /\ ctl' = Eval(ctl.th.nodes[1])
           /\ Head(kont').idx = 1
           /\ Head(kont').nodes = ctl.th.nodes
           /\ Tail(kont') = kont
    /\ (pc = "run" /\ ctl.m = "ret" /\ kont # <<>> /\ Head(kont).f = "Block") =>
           LET idx == Head(kont).idx
               nodes == Head(kont).nodes
           IN IF idx < Len(nodes)
              THEN /\ ctl' = Eval(nodes[idx + 1])
                   /\ Head(kont').idx = idx + 1
                   /\ Head(kont').nodes = nodes
                   /\ Tail(kont') = Tail(kont)
              ELSE /\ ctl' = Ret(ctl.v)
                   /\ kont' = Tail(kont)

\* the (ty, thunk) compile_node returns for a Block
C4_Type ==
    (AboutToFinish({"Block"}) /\ pc' = "lower") =>
        /\ Top(lowered').ty = Top(lowered).ty
        /\ Len(Top(lowered').thunk.nodes) = Head(pending).n
        /\ \A i \in 1 .. Head(pending).n :
              Top(lowered').thunk.nodes[i] =
                  lowered[Len(lowered) - Head(pending).n + i].thunk

\* C4: a Block closure runs its nested closures in list order, each once, and
\* returns the value of the last; the block's static type is that of its last
\* node; Block([Let x = 5, Assign x = x + 3, Var x]) returns 8
C4_BlockSequencing == []C4_Scenario /\ [][C4_Order]_vars /\ [][C4_Type]_vars

C4_Witness ==
    /\ entry.prog = let_assign_var
    /\ \E h \in Finished : h.host = <<8>>

\* the names declared once the node is lowered against the names in d, and
\* whether a Var or an Assign in it is reached with a name not declared by then
RECURSIVE Resolve(_, _)
Resolve(node, r) ==
    IF r.bad THEN r
    ELSE IF node.k = "Const" THEN r
    ELSE IF node.k = "Var" THEN [bad |-> node.name \notin r.d, d |-> r.d]
    ELSE IF node.k = "Let"
    THEN LET v == Resolve(node.value, r)
         IN [bad |-> v.bad, d |-> v.d \cup {node.name}]
    ELSE IF node.k = "Assign"
    THEN IF node.name \notin r.d THEN [bad |-> TRUE, d |-> r.d]
         ELSE Resolve(node.value, r)
    ELSE IF node.k \in {"Gt", "Add", "Sub"}
    THEN Resolve(node.rhs, Resolve(node.lhs, r))
    ELSE IF node.k = "While"
    THEN Resolve(node.body, Resolve(node.cond, r))
    ELSE IF node.nodes = <<>> THEN r
    ELSE Resolve(Block(Tail(node.nodes)), Resolve(Head(node.nodes), r))

HasUnresolvedName(prog) == Resolve(prog.body, [bad |-> FALSE, d |-> {"input"}]).bad

\* the step that reaches the name
C5_Abort ==
    (/\ AboutToLower({"Var", "Assign"})
     /\ Head(pending).node.name \notin DOMAIN ctxt.vars) =>
        /\ pc' = "abort"
        /\ panic_msg' = "var not defined"

\* an aborted compile stays aborted and has produced nothing
C5_Aborted ==
    pc = "abort" => (pc' = "abort" /\ thunk' = NoThunk /\ history' = <<>> /\ ctl' = Idle)

\* a program with an unresolved name is never callable
C5_NeverCompiled ==
    /\ HasUnresolvedName(entry.prog) => pc \in {"lower", "abort"}
    /\ panic_msg = "var not defined" => HasUnresolvedName(entry.prog)
    /\ pc = "abort" => (thunk = NoThunk /\ history = <<>> /\ ctl = Idle)

\* C5: a Var or an Assign reached while its name is neither "input" nor declared
\* by an already lowered Let aborts the compilation: no callable is produced and
\* no closure ever runs
C5_UnresolvedNames == []C5_NeverCompiled /\ [][C5_Abort]_vars /\ [][C5_Aborted]_vars

\* the abort is for the Var x in the initializer of Let x
C5_Witness ==
    /\ pc = "abort"
    /\ panic_msg = "var not defined"
    /\ Head(pending) = Task(Var("x"))
    /\ pending[2] = [op |-> "Let", name |-> "x"]

\* the names of the Let nodes of a tree, in lowering order
RECURSIVE LetNames(_)
LetNames(node) ==
    IF node.k \in {"Const", "Var"} THEN <<>>
    ELSE IF node.k = "Let" THEN LetNames(node.value) \o <<node.name>>
    ELSE IF node.k = "Assign" THEN LetNames(node.value)
    ELSE IF node.k \in {"Gt", "Add", "Sub"} THEN LetNames(node.lhs) \o LetNames(node.rhs)
    ELSE IF node.k = "While" THEN LetNames(node.cond) \o LetNames(node.body)
    ELSE IF node.nodes = <<>> THEN <<>>
    ELSE LetNames(Head(node.nodes)) \o LetNames(Block(Tail(node.nodes)))

DeclaresTwice(prog) ==
    LET names == LetNames(prog.body)
    IN \/ \E i \in 1 .. Len(names) : names[i] = "input"
       \/ \E i, j \in 1 .. Len(names) : i # j /\ names[i] = names[j]

\* C6: a program with two Let nodes of the same name, or a Let named "input",
\* anywhere in its body is never compiled; a program without them never fails
\* with the duplicate-declaration panic
C6_FlatNamespace ==
    /\ DeclaresTwice(entry.prog) => pc \in {"lower", "abort"}
    /\ panic_msg = "var already declared" => DeclaresTwice(entry.prog)

C6_Witness ==
    /\ entry.prog = let_twice_in_operands
    /\ pc = "abort"
    /\ panic_msg = "var already declared"

\* the step that matches the operand types
C7_Finish ==
    AboutToFinish({"Gt", "Add", "Sub"}) =>
        IF Top2(lowered).ty = "Int" /\ Top(lowered).ty = "Int"
        THEN /\ pc' = "lower"
             /\ Len(lowered') = Len(lowered) - 1
             /\ Top(lowered').ty = IF Head(pending).op = "Gt" THEN "Bool" ELSE "Int"
        ELSE /\ pc' = "abort"
             /\ panic_msg' = "unknown op"

\* a program with an unsupported operand pair is never invoked
C7_NeverRuns ==
    /\ panic_msg = "unknown op" => (pc = "abort" /\ history = <<>> /\ ctl = Idle)
    /\ entry.prog = add_bool_int => pc \in {"lower", "abort"}

\* C7: Gt, Add and Sub lower exactly when both operands have static type Int,
\* Gt to Bool and Add and Sub to Int; any other pair aborts the compilation
C7_OperatorTyping == []C7_NeverRuns /\ [][C7_Finish]_vars

C7_Witness ==
    /\ entry.prog = add_bool_int
    /\ pc = "abort"
    /\ panic_msg = "unknown op"
    /\ Head(pending).op = "Add"
    /\ Top2(lowered).ty = "Bool"
    /\ Top(lowered).ty = "Int"

\* the slots captured by the closures of a thunk
RECURSIVE Slots(_)
Slots(th) ==
    IF th.k = "Const" THEN {}
    ELSE IF th.k = "Var" THEN {th.id}
    ELSE IF th.k \in {"Let", "Assign"} THEN {th.id} \cup Slots(th.value)
    ELSE IF th.k \in {"Gt", "Add", "Sub"} THEN Slots(th.lhs) \cup Slots(th.rhs)
    ELSE IF th.k = "While" THEN Slots(th.cond) \cup Slots(th.body)
    ELSE IF th.k = "Block" THEN UNION {Slots(th.nodes[i]) : i \in 1 .. Len(th.nodes)}
    ELSE {}

\* the name table and the frame layout in one state
C8_Layout ==
    pc # "abort" =>
        /\ \A n \in DOMAIN ctxt.vars : ctxt.vars[n] \in 0 .. Len(ctxt.stack) - 1
        /\ \A n, m \in DOMAIN ctxt.vars : ctxt.vars[n] = ctxt.vars[m] => n = m
        /\ ctxt.vars["input"] = 0
        /\ ctxt.stack[1] = entry.prog.input
        /\ \A i \in 1 .. Len(lowered) : Slots(lowered[i].thunk) \subseteq 0 .. Len(ctxt.stack) - 1
        /\ pc \in {"ready", "run"} =>
               /\ stack_len = Len(ctxt.stack)
               /\ Slots(thunk) \subseteq 0 .. stack_len - 1
               /\ thunk = lowered[1].thunk

\* the name table and the frame layout across one step
C8_Grows ==
    pc' # "abort" =>
        /\ Len(ctxt'.stack) >= Len(ctxt.stack)
        /\ SubSeq(ctxt'.stack, 1, Len(ctxt.stack)) = ctxt.stack
        /\ DOMAIN ctxt.vars \subseteq DOMAIN ctxt'.vars
        /\ \A n \in DOMAIN ctxt.vars : ctxt'.vars[n] = ctxt.vars[n]
        /\ (AboutToFinish({"Let"})) =>
               /\ Len(ctxt'.stack) = Len(ctxt.stack) + 1
               /\ Top(lowered').thunk.id = ctxt'.vars[Head(pending).name]
               /\ Top(lowered').thunk.id = Len(ctxt.stack)
               /\ ctxt'.stack[Len(ctxt'.stack)] = Top(lowered).ty
        /\ (~AboutToFinish({"Let"})) => ctxt' = ctxt
        /\ (AboutToLower({"Var"})) =>
               Top(lowered').thunk.id = ctxt.vars[Head(pending).node.name]
        /\ (AboutToFinish({"Assign"})) => Top(lowered').thunk.id = Head(pending).id
        /\ (pc \in {"ready", "run"}) => (thunk' = thunk /\ stack_len' = stack_len)

\* C8: while a lowering does not abort, the frame layout only grows by appending,
\* a mapped name keeps its slot and the slot its Type, distinct names have
\* distinct slots below the layout length, "input" stays at slot 0, and a closure
\* captures the slot assigned at lowering, the same in every invocation
C8_SlotStability == []C8_Layout /\ [][C8_Grows]_vars

\* a later invocation of a callable with several slots
C8_Witness ==
    /\ entry.prog = fib
    /\ pc = "run"
    /\ Len(history) = 2
    /\ Len(ctxt.stack) = 5
    /\ ctxt.vars["n"] = 4

\* total = x + y over the integers, for i32 total, x and y
SumIs(total, x, y) ==
    \/ x >= 0 /\ y <= 0 /\ total = x + y
    \/ x <= 0 /\ y >= 0 /\ total = x + y
    \/ x > 0 /\ y > 0 /\ total >= x /\ total - x = y
    \/ x < 0 /\ y < 0 /\ total <= x /\ total - x = y

IsBinProg == \E n \in DOMAIN BinProgs : entry = BinProgs[n]

\* C9: applied to Int(a) and Int(b), the Add closure returns Int(a + b), the Sub
\* closure Int(a - b) and the Gt closure Bool(a > b), for all i32 a and b, and
\* the invocation does not panic
C9_Arithmetic ==
    IsBinProg =>
        \A h \in Finished :
            LET op == entry.prog.body.nodes[2].k
                a == h.in
                b == entry.prog.body.nodes[2].rhs.v.i
            IN /\ h.kind = "ret"
               /\ op = "Gt" => h.host = <<a > b>>
               /\ op = "Add" => SumIs(h.host[1], a, b)
               /\ op = "Sub" => SumIs(a, h.host[1], b)

\* the same, for the operands whose sum or difference is an i32
C9_InRange ==
    IsBinProg =>
        \A h \in Finished :
            LET op == entry.prog.body.nodes[2].k
                a == h.in
                b == entry.prog.body.nodes[2].rhs.v.i
            IN /\ op = "Gt" => (h.kind = "ret" /\ h.host = <<a > b>>)
               /\ (op = "Add" /\ ~AddOverflows(a, b)) =>
                      (h.kind = "ret" /\ h.host = <<a + b>>)
               /\ (op = "Sub" /\ ~SubOverflows(a, b)) =>
                      (h.kind = "ret" /\ h.host = <<a - b>>)
               /\ (op = "Add" /\ AddOverflows(a, b)) =>
                      IF overflow_checks
                      THEN h.kind = "panic" /\ h.msg = "attempt to add with overflow"
                      ELSE h.kind = "ret" /\ ~SumIs(h.host[1], a, b)
               /\ (op = "Sub" /\ SubOverflows(a, b)) =>
                      IF overflow_checks
                      THEN h.kind = "panic" /\ h.msg = "attempt to subtract with overflow"
                      ELSE h.kind = "ret" /\ ~SumIs(a, h.host[1], b)

\* C10: a While closure returns Unit at the first condition that is false, after
\* one body execution per condition that was true, and only then: the loop of
\* loop_forever never returns, and the loop of the Fibonacci program ends for
\* every input n after max(n, 0) body executions
C10_WhileLoop ==
    /\ entry.prog = loop_forever => history = <<>>
    /\ entry.prog = fib =>
          \A h \in Finished :
              /\ h.kind = "ret"
              /\ h.runs = IF h.in > 0 THEN h.in ELSE 0

\* the steps of a While closure
C10_LoopSteps ==
    /\ (pc = "run" /\ ctl.m = "eval" /\ ctl.th.k = "While") =>
           /\ ctl' = Eval(ctl.th.cond)
           /\ body_runs' = body_runs
    /\ (pc = "run" /\ ctl.m = "ret" /\ kont # <<>> /\ Head(kont).f = "While"
           /\ Head(kont).st = "cond" /\ ctl.v.tag = "Bool") =>
           IF ctl.v.b
           THEN /\ ctl' = Eval(Head(kont).body)
                /\ body_runs' = body_runs + 1
                /\ Len(kont') = Len(kont)
           ELSE /\ ctl' = Ret(VUnit)
                /\ kont' = Tail(kont)
                /\ body_runs' = body_runs
    /\ (pc = "run" /\ ctl.m = "ret" /\ kont # <<>> /\ Head(kont).f = "While"
           /\ Head(kont).st = "body") =>
           /\ ctl' = Eval(Head(kont).cond)
           /\ body_runs' = body_runs
           /\ Len(kont') = Len(kont)

C10_Steps == [][C10_LoopSteps]_vars

\* the Fibonacci loop where no addition leaves i32
C10_FibInRange ==
    entry.prog = fib =>
        \A h \in Finished :
            h.in <= MaxFibN =>
                /\ h.kind = "ret"
                /\ h.runs = IF h.in > 0 THEN h.in ELSE 0

====
